---- MODULE Spec2Model ----
(***************************************************************************)
(* A model of the API gateway's two stateful components:                   *)
(*   - OdooClient._request (src/odoo_client.py): the retrying, concurrency *)
(*     bounded outbound call shared by search_read/create/write/unlink/    *)
(*     call on the singleton odoo_client;                                  *)
(*   - the per-tenant fixed-window rate limiter that runs as middleware    *)
(*     ahead of the route handlers.                                        *)
(* Scheduling is cooperative (asyncio): the code between two awaits is one *)
(* atomic action.  Durations are in milliseconds so that the backoff       *)
(* factor 0.5 s is the integer 500.                                        *)
(***************************************************************************)
EXTENDS Integers, Sequences, FiniteSets, Bags, TLC

VARIABLES
    base_url,     \* OdooClient.base_url, a sequence of characters
    db,           \* OdooClient.db
    api_key,      \* OdooClient.api_key
    max_retries,  \* OdooClient.max_retries
    sem,          \* OdooClient._semaphore: the free-slot count (_value)
    waiters,      \* OdooClient._semaphore: FIFO of calls suspended in acquire
    pc,           \* per call: where the coroutine _request is
    attempt,      \* per call: local variable attempt
    last_exc,     \* per call: local variable last_exc
    posts,        \* per call: number of client.post calls issued
    sleeps,       \* per call: the asyncio.sleep durations, in order
    answers,      \* per call: what the backend has answered so far (history)
    result,       \* per call: what _request returned or raised
    op,           \* per call: the public operation the caller invoked, with its arguments
    url,          \* per call: local variable url
    payload,      \* per call: parameter payload, the JSON body
    wire,         \* per call: the requests client.post has sent
    now,          \* the wall clock read by the limiter, in epoch seconds
    rate_limit,   \* the limiter's configured requests-per-window ceiling
    counters,     \* the limiter's counter table: <<tenant, window>> -> count
    inflight,     \* the request tasks suspended in their handler: a bag of their locals
    response,     \* the response the middleware sent last
    admitted,     \* per tenant: limited requests let through in the current window,
                  \* counted up to one past the limit
    task,         \* per call: the request task whose route handler made the call
    reply,        \* per call: the response its /odoo route handler produced
    supabase,     \* main.supabase: is the datastore client configured?
    RESEND_API_KEY,  \* main.RESEND_API_KEY: is it set?
    chatwoot,     \* the CHATWOOT_* settings: "unset", "set" or "bad_inbox"
    LOCAL_STORE,  \* main.LOCAL_STORE
    contacts,     \* the rows of the datastore table contacts
    cpc,          \* per submission: where the coroutine create_contact is
    cresp,        \* per submission: the response of POST /contact
    mishaps,      \* per submission: what went wrong in its email and helpdesk steps
    listed,       \* the last response of GET /contacts
    runtime_executions,        \* the rows of the table runtime_executions
    runtime_link_validations,  \* the rows of the table runtime_link_validations
    runtime_url_deltas,        \* the rows of the table runtime_url_deltas
    runtime_semantic_deltas,   \* the rows of the table runtime_semantic_deltas
    runtime_alerts,            \* the rows of the table runtime_alerts
    ingest,       \* per crawl report: the handler that takes it, its payload and locals
    ingest_resp   \* per crawl report: the response of POST /mcp/runtime/ingest

clientVars == <<base_url, db, api_key, max_retries, sem, waiters, pc, attempt,
                last_exc, posts, sleeps, answers, result, op, url, payload, wire>>

limiterVars == <<now, rate_limit, counters, inflight, response, admitted>>

routeVars == <<task, reply>>

contactVars == <<supabase, RESEND_API_KEY, chatwoot, LOCAL_STORE, contacts, cpc, cresp,
                 mishaps, listed>>

ingestVars == <<runtime_executions, runtime_link_validations, runtime_url_deltas,
                runtime_semantic_deltas, runtime_alerts, ingest, ingest_resp>>

vars == <<clientVars, limiterVars, routeVars, contactVars, ingestVars>>

\* What an action of one component leaves alone.
beyondClient == <<limiterVars, routeVars, contactVars, ingestVars>>
beyondLimiter == <<clientVars, routeVars, contactVars, ingestVars>>

----------------------------------------------------------------------------
(* Bounds and program constants *)

\* Slots of the concurrency gate (ODOO_MAX_CONCURRENCY), kept small.
MaxConcurrency == 1

\* Default of max_retries; the configurations explored are 0..MaxRetries.
MaxRetries == 3

\* Default of backoff_factor (0.5 s) in milliseconds.
BackoffFactorMs == 500

\* The limiter's window length in seconds.
WindowSeconds == 60

\* Length of the token prefix that names a tenant.
TenantPrefixLen == 1

\* Largest configured rate limit explored (the default is 300).
MaxLimit == 2

\* Request tasks that can be inside the middleware at once.
MaxInflight == 2

\* The instants (epoch seconds) at which the clock is read: two in window 0,
\* the first second of window 1 and a later one.
ClockReadings == {0, 59, 60, 100}

\* Concurrent callers of the shared client: one more than the gate admits.
Calls == 1..(MaxConcurrency + 1)

----------------------------------------------------------------------------
(* Configuration *)

RECURSIVE RStripSlash(_)
\* str.rstrip("/"): drop every trailing "/".
RStripSlash(s) ==
    IF s = <<>> THEN s
    ELSE IF s[Len(s)] = "/" THEN RStripSlash(SubSeq(s, 1, Len(s) - 1))
    ELSE s

\* The values ODOO_URL, ODOO_DB and ODOO_API_KEY may have ("" when unset).
UrlInputs == {<<>>, <<"/">>, <<"e">>, <<"e", "/">>}
DbInputs == {"", "smarterbot_prod"}
KeyInputs == {"", "key"}

\* A guard that forgets the database name.
ConfiguredIgnoresDb == base_url # <<>> /\ api_key # ""

\* The guard of _request: base_url and db and api_key are all non-empty.
Configured == base_url # <<>> /\ db # "" /\ api_key # ""

\* OdooClient._headers.
Headers == [Authorization |-> <<"bearer ", api_key>>, XOdooDatabase |-> db]

\* url = f"{self.base_url}/json/2/{model}/{method}"
Url(model, method) == base_url \o <<"/json/2/", model, "/", method>>

\* The arguments callers pass to the public operations.
Models == {"res.partner"}
Domains == {<<>>, <<<<"active", "=", "true">>>>}
FieldLists == {<<>>, <<"name">>}
Limits == {1}
RecordIds == {7}
ValueDicts == {[name |-> "n"]}
Methods == {"read", "unlink"}
ParamDicts == {[ids |-> <<7>>], [values |-> [name |-> "n"]]}

\* The default of search_read's parameter limit, and the mark of a call that
\* leaves the parameter out.
DefaultLimit == 80
Omitted == -1

\* list(fields): a list of the elements of fields, in order.
List(fields) == [i \in 1..Len(fields) |-> fields[i]]

\* A write that names the record under the handler's key id.
WriteBodyIdKey(record_id, values) == [id |-> <<record_id>>, values |-> values]

\* The JSON bodies the public operations hand to _request.
SearchReadBody(domain, fields, limit) ==
    [domain |-> domain, fields |-> List(fields), limit |-> limit]
CreateBody(values) == [values |-> values]
WriteBody(record_id, values) == [ids |-> <<record_id>>, values |-> values]
UnlinkBody(record_id) == [ids |-> <<record_id>>]

----------------------------------------------------------------------------
(* Exceptions and backend answers *)

NoExc == [type |-> "None", status |-> 0]
ConfigError == [type |-> "RuntimeError", status |-> 0]

NoResponse == [kind |-> "none", code |-> 0, json |-> FALSE]

\* What the backend can do to one client.post.
Responses ==
    {[kind |-> "status", code |-> 200, json |-> TRUE],
     [kind |-> "status", code |-> 200, json |-> FALSE],
     [kind |-> "status", code |-> 404, json |-> TRUE],
     [kind |-> "status", code |-> 500, json |-> TRUE],
     [kind |-> "raise", code |-> 0, json |-> FALSE]}

\* The record of the backend's answers to one call: how many, the latest, and
\* the set of those that were not a parseable 2xx.
NoAnswers == [n |-> 0, last |-> NoResponse, failed |-> {}]
IsSuccess(resp) == resp.kind = "status" /\ resp.code = 200 /\ resp.json
Answered(h, resp) ==
    [n |-> h.n + 1, last |-> resp,
     failed |-> IF IsSuccess(resp) THEN h.failed ELSE h.failed \cup {resp}]

\* httpx.HTTPStatusError and httpx.TimeoutException derive from httpx.HTTPError;
\* json.JSONDecodeError does not.
HTTPErrorTypes == {"HTTPStatusError", "TimeoutException"}

\* The body of the try block: the exception it raises, or NoExc when it
\* reaches the return statement.
AttemptOutcome(resp) ==
    IF resp.kind = "raise" THEN [type |-> "TimeoutException", status |-> 0]
    ELSE IF resp.code >= 500 THEN [type |-> "HTTPStatusError", status |-> resp.code]
    ELSE IF resp.code < 200 \/ resp.code >= 300
         THEN [type |-> "HTTPStatusError", status |-> resp.code]
    ELSE IF ~resp.json THEN [type |-> "JSONDecodeError", status |-> 0]
    ELSE NoExc

\* An except clause that catches every exception.
CaughtWhatever(e) == TRUE

\* The except clause: (httpx.HTTPError, httpx.TimeoutException).
Caught(e) == e.type \in HTTPErrorTypes

\* A backoff whose exponent is the attempt number itself.
SleepTimeExponentOff(a) == BackoffFactorMs * 2 ^ a

\* sleep_time = backoff_factor * 2 ** (attempt - 1), attempt already incremented.
SleepTime(a) == BackoffFactorMs * 2 ^ (a - 1)

----------------------------------------------------------------------------
(* The concurrency gate: asyncio.Semaphore *)

RECURSIVE FirstWaiting(_, _)
\* The first waiter whose future is not done yet, 0 when there is none.
FirstWaiting(ws, pcs) ==
    IF ws = <<>> THEN 0
    ELSE IF pcs[Head(ws)] = "waiting" THEN Head(ws)
    ELSE FirstWaiting(Tail(ws), pcs)

\* A gate that never turns a caller away.
LockedNever == FALSE

\* Semaphore.locked(): no free slot, or somebody is queued already.
Locked == sem = 0 \/ waiters # <<>>

\* A release that wakes nobody.
WakeUpNobody(g, ws) == g

\* Semaphore._wake_up_next on gate state g = [sem, pc] with queue ws: hand a
\* slot to the first suspended waiter.
WakeUpNext(g, ws) ==
    LET w == FirstWaiting(ws, g.pc)
    IN  IF w = 0 THEN g
        ELSE [sem |-> g.sem - 1, pc |-> [g.pc EXCEPT ![w] = "woken"]]

\* Semaphore.release, run when the async with block is left.
SemRelease(g, ws) == WakeUpNext([g EXCEPT !.sem = @ + 1], ws)

RECURSIVE Without(_, _)
Without(ws, c) ==
    IF ws = <<>> THEN <<>>
    ELSE IF Head(ws) = c THEN Tail(ws)
    ELSE <<Head(ws)>> \o Without(Tail(ws), c)

----------------------------------------------------------------------------
(* OdooClient._request *)

\* No public operation invoked, no body built.
NoOp == [name |-> "none"]
NoBody == [none |-> TRUE]

Returned == [status |-> "ok", exc |-> NoExc]
Raised(e) == [status |-> "raised", exc |-> e]
Pending == [status |-> "none", exc |-> NoExc]

ClientInit ==
    /\ base_url \in {RStripSlash(u) : u \in UrlInputs}
    /\ db \in DbInputs
    /\ api_key \in KeyInputs
    /\ max_retries \in 0..MaxRetries
    /\ sem = MaxConcurrency
    /\ waiters = <<>>
    /\ pc = [c \in Calls |-> "idle"]
    /\ attempt = [c \in Calls |-> 0]
    /\ last_exc = [c \in Calls |-> NoExc]
    /\ posts = [c \in Calls |-> 0]
    /\ sleeps = [c \in Calls |-> <<>>]
    /\ answers = [c \in Calls |-> NoAnswers]
    /\ result = [c \in Calls |-> Pending]
    /\ op = [c \in Calls |-> NoOp]
    /\ url = [c \in Calls |-> <<>>]
    /\ payload = [c \in Calls |-> NoBody]
    /\ wire = [c \in Calls |-> {}]

\* Leaving the block without giving the slot back.
LeaveNoRelease(c, res) ==
    /\ result' = [result EXCEPT ![c] = res]
    /\ sem' = sem
    /\ pc' = [pc EXCEPT ![c] = "done"]
    /\ attempt' = [attempt EXCEPT ![c] = 0]
    /\ last_exc' = [last_exc EXCEPT ![c] = NoExc]

\* The async with block is left by return or raise: Semaphore.release runs
\* and the locals attempt and last_exc die with the coroutine frame.
Leave(c, res) ==
    LET released == SemRelease([sem |-> sem, pc |-> [pc EXCEPT ![c] = "done"]], waiters)
    IN  /\ result' = [result EXCEPT ![c] = res]
        /\ sem' = released.sem
        /\ pc' = released.pc
        /\ attempt' = [attempt EXCEPT ![c] = 0]
        /\ last_exc' = [last_exc EXCEPT ![c] = NoExc]

\* client.post(url, json=payload, headers=self._headers()) is issued for call c.
Post(c, u, body) ==
    /\ posts' = [posts EXCEPT ![c] = @ + 1]
    /\ wire' = [wire EXCEPT ![c] = @ \cup {[url |-> u, json |-> body, headers |-> Headers]}]

\* _request(model, method, body) up to its first suspension: the
\* configuration guard, the url, then async with self._semaphore, then (slot
\* in hand) the first client.post.
RequestWith(c, model, method, body) ==
    /\ pc[c] = "idle"
    /\ IF ~Configured
       THEN /\ pc' = [pc EXCEPT ![c] = "done"]
            /\ result' = [result EXCEPT ![c] = Raised(ConfigError)]
            /\ UNCHANGED <<sem, waiters, posts, url, payload, wire>>
       ELSE /\ url' = [url EXCEPT ![c] = Url(model, method)]
            /\ payload' = [payload EXCEPT ![c] = body]
            /\ IF ~Locked
               THEN /\ sem' = sem - 1
                    /\ pc' = [pc EXCEPT ![c] = "posting"]
                    /\ Post(c, Url(model, method), body)
                    /\ UNCHANGED <<waiters, result>>
               ELSE /\ waiters' = Append(waiters, c)
                    /\ pc' = [pc EXCEPT ![c] = "waiting"]
                    /\ UNCHANGED <<sem, posts, result, wire>>
    /\ UNCHANGED <<base_url, db, api_key, max_retries, attempt, last_exc, sleeps, answers>>

\* A caller enters _request directly.
Request(c) ==
    /\ RequestWith(c, "res.partner", "search_read", SearchReadBody(<<>>, <<>>, DefaultLimit))
    /\ UNCHANGED op
    /\ UNCHANGED beyondClient

\* The public helpers: each records what the caller asked for and hands its
\* body to _request.
search_read(c, model, domain, fields, limit) ==
    /\ RequestWith(c, model, "search_read",
                   SearchReadBody(domain, fields, IF limit = Omitted THEN DefaultLimit ELSE limit))
    /\ op' = [op EXCEPT ![c] = [name |-> "search_read", model |-> model,
                                 domain |-> domain, fields |-> fields, limit |-> limit]]

create(c, model, values) ==
    /\ RequestWith(c, model, "create", CreateBody(values))
    /\ op' = [op EXCEPT ![c] = [name |-> "create", model |-> model, values |-> values]]

write(c, model, record_id, values) ==
    /\ RequestWith(c, model, "write", WriteBody(record_id, values))
    /\ op' = [op EXCEPT ![c] = [name |-> "write", model |-> model,
                                 record_id |-> record_id, values |-> values]]

unlink(c, model, record_id) ==
    /\ RequestWith(c, model, "unlink", UnlinkBody(record_id))
    /\ op' = [op EXCEPT ![c] = [name |-> "unlink", model |-> model, record_id |-> record_id]]

call(c, model, method, params) ==
    /\ RequestWith(c, model, method, params)
    /\ op' = [op EXCEPT ![c] = [name |-> "call", model |-> model,
                                 method |-> method, params |-> params]]

\* A waiter whose future was set resumes inside acquire, leaves the queue and
\* issues its first client.post.
Resume(c) ==
    /\ pc[c] = "woken"
    /\ LET ws == Without(waiters, c)
           g0 == [sem |-> sem, pc |-> [pc EXCEPT ![c] = "posting"]]
           g  == IF sem > 0 THEN WakeUpNext(g0, ws) ELSE g0
       IN  /\ waiters' = ws
           /\ sem' = g.sem
           /\ pc' = g.pc
    /\ Post(c, url[c], payload[c])
    /\ UNCHANGED <<base_url, db, api_key, max_retries, attempt, last_exc, sleeps,
                   answers, result, op, url, payload>>
    /\ UNCHANGED beyondClient

\* A retry loop that never gives up: it sleeps after every caught failure.
RetryNoLimit(c, e) ==
    /\ last_exc' = [last_exc EXCEPT ![c] = e]
    /\ attempt' = [attempt EXCEPT ![c] = @ + 1]
    /\ sleeps' = [sleeps EXCEPT ![c] = Append(@, SleepTime(attempt[c] + 1))]
    /\ pc' = [pc EXCEPT ![c] = "sleeping"]
    /\ UNCHANGED <<sem, result>>

\* A retry loop whose counter and last error are attributes of the shared
\* client: the failure of one call is counted against every call.
RetrySharedCounter(c, e) ==
    IF attempt[c] + 1 > max_retries
    THEN /\ Leave(c, Raised(e))
         /\ UNCHANGED sleeps
    ELSE /\ last_exc' = [d \in Calls |-> e]
         /\ attempt' = [d \in Calls |-> attempt[c] + 1]
         /\ sleeps' = [sleeps EXCEPT ![c] = Append(@, SleepTime(attempt[c] + 1))]
         /\ pc' = [pc EXCEPT ![c] = "sleeping"]
         /\ UNCHANGED <<sem, result>>

\* A retry loop that gives up one attempt early.
RetryOneShort(c, e) ==
    IF attempt[c] + 1 >= max_retries
    THEN /\ Leave(c, Raised(e))
         /\ UNCHANGED sleeps
    ELSE /\ last_exc' = [last_exc EXCEPT ![c] = e]
         /\ attempt' = [attempt EXCEPT ![c] = @ + 1]
         /\ sleeps' = [sleeps EXCEPT ![c] = Append(@, SleepTime(attempt[c] + 1))]
         /\ pc' = [pc EXCEPT ![c] = "sleeping"]
         /\ UNCHANGED <<sem, result>>

\* The except clause after a caught failure e of call c: count it, give up
\* when the retries are used up, else sleep before the next attempt.
Retry(c, e) ==
    IF attempt[c] + 1 > max_retries
    THEN /\ Leave(c, Raised(e))
         /\ UNCHANGED sleeps
    ELSE /\ last_exc' = [last_exc EXCEPT ![c] = e]
         /\ attempt' = [attempt EXCEPT ![c] = @ + 1]
         /\ sleeps' = [sleeps EXCEPT ![c] = Append(@, SleepTime(attempt[c] + 1))]
         /\ pc' = [pc EXCEPT ![c] = "sleeping"]
         /\ UNCHANGED <<sem, result>>

\* The backend answers the pending client.post of call c with resp.
Respond(c, resp) ==
    /\ pc[c] = "posting"
    /\ answers' = [answers EXCEPT ![c] = Answered(@, resp)]
    /\ LET e == AttemptOutcome(resp)
       IN  IF e = NoExc
           THEN Leave(c, Returned) /\ UNCHANGED sleeps
           ELSE IF ~Caught(e)
           THEN Leave(c, Raised(e)) /\ UNCHANGED sleeps
           ELSE Retry(c, e)
    /\ UNCHANGED <<base_url, db, api_key, max_retries, waiters, posts, op, url,
                   payload, wire>>
    /\ UNCHANGED beyondClient

\* asyncio.sleep returns: the loop condition holds, the next client.post goes out.
WakeFromSleep(c) ==
    /\ pc[c] = "sleeping"
    /\ attempt[c] <= max_retries
    /\ pc' = [pc EXCEPT ![c] = "posting"]
    /\ Post(c, url[c], payload[c])
    /\ UNCHANGED <<base_url, db, api_key, max_retries, sem, waiters, attempt,
                   last_exc, sleeps, answers, result, op, url, payload>>
    /\ UNCHANGED beyondClient

ClientNext ==
    \/ \E c \in Calls : Request(c)
    \/ \E c \in Calls : Resume(c)
    \/ \E c \in Calls, resp \in Responses : Respond(c, resp)
    \/ \E c \in Calls : WakeFromSleep(c)

----------------------------------------------------------------------------
(* The tenant rate limiter (request middleware) *)

\* The window index of an instant: epoch seconds div 60.
Window(t) == t \div WindowSeconds

\* The instant at which window w ends.
WindowEnd(w) == (w + 1) * WindowSeconds

\* Paths that bypass the limiter: root, health check, API documentation.
AllowList == {"/", "/health", "/docs", "/openapi.json"}

\* The request paths explored: two exempt ones and a limited one.
Paths == {"/", "/health", "/odoo/search_read"}

\* Authorization header values: absent, not bearer, and bearer tokens.
NoAuth == [scheme |-> "", cred |-> <<>>]
Tokens == {<<"a", "x">>, <<"a", "y">>, <<"b">>}
AuthHeaders ==
    {NoAuth, [scheme |-> "Basic", cred |-> <<"a", "x">>]}
        \cup {[scheme |-> "Bearer", cred |-> tok] : tok \in Tokens}

Min(a, b) == IF a < b THEN a ELSE b
Max(a, b) == IF a > b THEN a ELSE b

\* A tenant key taken from any credential, bearer or not.
TenantKeyAnyScheme(auth) == SubSeq(auth.cred, 1, Min(Len(auth.cred), TenantPrefixLen))

\* The tenant key: a bounded-length prefix of the bearer token; <<>> when the
\* header is absent or not bearer-prefixed.
NoTenant == <<>>
TenantKey(auth) ==
    IF auth.scheme = "Bearer"
    THEN SubSeq(auth.cred, 1, Min(Len(auth.cred), TenantPrefixLen))
    ELSE NoTenant
Tenants == {TenantKey(a) : a \in AuthHeaders} \ {NoTenant}

\* A lookup that ignores the window half of the key: the tenant's largest
\* counter in any window.
CountAnyWindow(tbl, key) ==
    LET ks == {k \in DOMAIN tbl : k[1] = key[1]}
    IN  IF ks = {} THEN 0
        ELSE tbl[CHOOSE k \in ks : \A j \in ks : tbl[k] >= tbl[j]]

\* The counter of a key, 0 when the table has no entry for it.
Count(tbl, key) == IF key \in DOMAIN tbl THEN tbl[key] ELSE 0

\* A sweep that removes nothing.
SweepNothing(tbl, w) == tbl

\* The sweep: keep only the entries of window w.
Sweep(tbl, w) == [k \in {x \in DOMAIN tbl : x[2] = w} |-> tbl[k]]

\* The locals of a request task suspended in its handler.
\* bypass is "path" or "auth" in a task that left the limiter at the
\* allow-list test or at the credential test, "" in a counted one.
Bypassed(why) == [bypass |-> why, tenant |-> NoTenant, window |-> 0, count |-> 0]
Limited(tenant, window, count) ==
    [bypass |-> "", tenant |-> tenant, window |-> window, count |-> count]

\* Responses leaving the middleware: the status and the three X-RateLimit
\* headers (-1 when the header is not set).
NoneSent == [status |-> 0, limit |-> -1, remaining |-> -1, reset |-> -1]
Rejection(w) ==
    [status |-> 429, limit |-> rate_limit, remaining |-> 0, reset |-> WindowEnd(w)]
Annotated(w, count) ==
    [status |-> 200, limit |-> rate_limit,
     remaining |-> Max(0, rate_limit - count - 1), reset |-> WindowEnd(w)]
PassedThrough == [status |-> 200, limit |-> -1, remaining |-> -1, reset |-> -1]

\* A limiter without the allow-list test.
BypassesAuthOnly(path, auth) == IF TenantKey(auth) = NoTenant THEN "auth" ELSE ""

\* Where the middleware skips the limiter for this request: at the allow-list
\* test ("path"), at the credential test ("auth"), or nowhere ("").
Bypasses(path, auth) ==
    IF path \in AllowList THEN "path"
    ELSE IF TenantKey(auth) = NoTenant THEN "auth"
    ELSE ""

\* A limit test that lets the request at the limit through.
OverLimitOffByOne(count) == count > rate_limit

\* Is the counter read for a request at or above the limit?
OverLimit(count) == count >= rate_limit

\* The counter table after one more request of key.
Incremented(tbl, key) ==
    [k \in DOMAIN tbl \cup {key} |-> IF k = key THEN Count(tbl, key) + 1 ELSE tbl[k]]

LimiterInit ==
    /\ now = 0
    /\ rate_limit \in 1..MaxLimit
    /\ counters = <<>>
    /\ inflight = EmptyBag
    /\ response = NoneSent
    /\ admitted = [t \in Tenants |-> 0]

\* The middleware from the arrival of a request to its first suspension: it
\* bypasses, rejects, or counts the request and calls the handler.
Middleware(path, auth) ==
    /\ BagCardinality(inflight) < MaxInflight
    /\ LET tenant == TenantKey(auth)
           window == Window(now)
           key == <<tenant, window>>
           count == Count(counters, key)
       IN  IF Bypasses(path, auth) # ""
           THEN /\ inflight' = inflight (+) SetToBag({Bypassed(Bypasses(path, auth))})
                /\ UNCHANGED <<counters, response, admitted>>
           ELSE IF OverLimit(count)
           THEN /\ response' = Rejection(window)
                /\ UNCHANGED <<counters, inflight, admitted>>
           ELSE /\ counters' = Incremented(counters, key)
                /\ admitted' = [admitted EXCEPT ![tenant] = Min(@ + 1, rate_limit + 1)]
                /\ inflight' = inflight (+) SetToBag({Limited(tenant, window, count)})
                /\ UNCHANGED response
    /\ UNCHANGED <<now, rate_limit>>

\* A request arrives while no route handler has anything to do.
Dispatch(path, auth) ==
    /\ Middleware(path, auth)
    /\ UNCHANGED beyondLimiter

\* The middleware after the handler of the request task with locals q has
\* returned: a limited request gets its headers and the table is swept; a
\* bypassed one is passed through.
AfterHandler(q) ==
    /\ BagIn(q, inflight)
    /\ IF q.bypass # ""
       THEN /\ response' = PassedThrough
            /\ UNCHANGED counters
       ELSE /\ response' = Annotated(q.window, q.count)
            /\ counters' = Sweep(counters, q.window)
    /\ inflight' = inflight (-) SetToBag({q})
    /\ UNCHANGED <<now, rate_limit, admitted>>

\* The handler of a request task returns, no ERP call involved.
Finish(q) ==
    /\ AfterHandler(q)
    /\ UNCHANGED beyondLimiter

\* Time passes; the per-window tally starts afresh when the window changes.
Tick(instant) ==
    /\ instant > now
    /\ now' = instant
    /\ admitted' = IF Window(now') # Window(now)
                   THEN [t \in Tenants |-> 0]
                   ELSE admitted
    /\ UNCHANGED <<rate_limit, counters, inflight, response>>
    /\ UNCHANGED beyondLimiter

LimiterNext ==
    \/ \E path \in Paths, auth \in AuthHeaders : Dispatch(path, auth)
    \/ \E q \in BagToSet(inflight) : Finish(q)
    \/ \E instant \in ClockReadings : Tick(instant)

----------------------------------------------------------------------------
(* The /odoo route handlers (routers/odoo.py) *)

NoTask == [bypass |-> "none", tenant |-> NoTenant, window |-> 0, count |-> 0]
NoReply == [status |-> 0, detail |-> ""]

RouteInit ==
    /\ task = [c \in Calls |-> NoTask]
    /\ reply = [c \in Calls |-> NoReply]

\* The request bodies the handlers accept (pydantic has validated them;
\* SearchReadRequest.limit defaults to 80).
SearchReadRequests ==
    [model : Models, domain : Domains, fields : FieldLists, limit : Limits \cup {DefaultLimit}]
CreateRequests == [model : Models, values : ValueDicts]
WriteRequests == [model : Models, id : RecordIds, values : ValueDicts]
UnlinkRequests == [model : Models, id : RecordIds]
GenericCallRequests == [model : Models, method : Methods, params : ParamDicts]

\* str(e): the text of an exception.
Str(e) ==
    CASE e.type = "RuntimeError" -> "Odoo client not configured"
      [] e.type = "HTTPStatusError" /\ e.status >= 500 -> "Server error"
      [] e.type = "HTTPStatusError" /\ e.status < 500 -> "Client error"
      [] e.type = "TimeoutException" -> "timed out"
      [] e.type = "JSONDecodeError" -> "Expecting value"
      [] OTHER -> ""

\* A handler that only expects the errors the retry loop gives up on.
HandlerCatchesHTTPErrorsOnly(e) == e.type \in HTTPErrorTypes

\* except Exception: every exception the client raises is an Exception.
HandlerCatches(e) == e.type \in {"RuntimeError", "JSONDecodeError"} \cup HTTPErrorTypes

\* What a handler answers once the client operation it awaits has resolved:
\* the value returned, or HTTPException(502, detail=str(e)); an exception it
\* does not catch ends as the framework's 500.
HandlerResponse(res) ==
    IF res.status = "ok" THEN [status |-> 200, detail |-> "ok"]
    ELSE IF HandlerCatches(res.exc) THEN [status |-> 502, detail |-> Str(res.exc)]
    ELSE [status |-> 500, detail |-> "Internal Server Error"]

\* The handler awaiting call c resumes and answers.
HandlerReply(c) ==
    /\ pc[c] = "done"
    /\ op[c] # NoOp
    /\ reply[c] = NoReply
    /\ reply' = [reply EXCEPT ![c] = HandlerResponse(result[c])]

\* The five handlers, each run by a request task up to its first suspension
\* inside the client; reached directly, as in the app of main.py.
odoo_search_read(c, body) ==
    /\ search_read(c, body.model, body.domain, body.fields, body.limit)
    /\ UNCHANGED <<limiterVars, routeVars, contactVars, ingestVars>>

odoo_create(c, body) ==
    /\ create(c, body.model, body.values)
    /\ UNCHANGED <<limiterVars, routeVars, contactVars, ingestVars>>

odoo_write(c, body) ==
    /\ write(c, body.model, body.id, body.values)
    /\ UNCHANGED <<limiterVars, routeVars, contactVars, ingestVars>>

odoo_unlink(c, body) ==
    /\ unlink(c, body.model, body.id)
    /\ UNCHANGED <<limiterVars, routeVars, contactVars, ingestVars>>

odoo_call(c, body) ==
    /\ call(c, body.model, body.method, body.params)
    /\ UNCHANGED <<limiterVars, routeVars, contactVars, ingestVars>>

\* A caller that leaves search_read's limit to its default.
SearchReadDefaultLimit(c, model, domain, fields) ==
    /\ search_read(c, model, domain, fields, Omitted)
    /\ UNCHANGED <<limiterVars, routeVars, contactVars, ingestVars>>

\* A handler returns its response.
RouteReturns(c) ==
    /\ HandlerReply(c)
    /\ UNCHANGED <<clientVars, limiterVars, task, contactVars, ingestVars>>

\* The calls made by route handlers; the other callers use _request as it is.
RoutedCalls == {1}

RoutesNext ==
    \/ \E c \in RoutedCalls, body \in SearchReadRequests : odoo_search_read(c, body)
    \/ \E c \in RoutedCalls, body \in CreateRequests : odoo_create(c, body)
    \/ \E c \in RoutedCalls, body \in WriteRequests : odoo_write(c, body)
    \/ \E c \in RoutedCalls, body \in UnlinkRequests : odoo_unlink(c, body)
    \/ \E c \in RoutedCalls, body \in GenericCallRequests : odoo_call(c, body)
    \/ \E c \in RoutedCalls, m \in Models, d \in Domains, f \in FieldLists :
          SearchReadDefaultLimit(c, m, d, f)
    \/ \E c \in Calls \ RoutedCalls : Request(c)
    \/ \E c \in Calls : Resume(c)
    \/ \E c \in Calls, resp \in Responses : Respond(c, resp)
    \/ \E c \in Calls : WakeFromSleep(c)
    \/ \E c \in Calls : RouteReturns(c)

----------------------------------------------------------------------------
(* The gateway: the limiter ahead of the /odoo/search_read handler *)

OdooPath == "/odoo/search_read"

\* The handlers running for request tasks with locals q.
Handling(q) == {d \in Calls : task[d] = q /\ reply[d] = NoReply}

\* call_next: the handler of a request task the middleware let through runs
\* up to its first suspension inside the client, as call c.
Handle(q, c, body) ==
    /\ BagIn(q, inflight)
    /\ q.bypass # "path"
    /\ CopiesIn(q, inflight) > Cardinality(Handling(q))
    /\ task[c] = NoTask
    /\ task' = [task EXCEPT ![c] = q]
    /\ search_read(c, body.model, body.domain, body.fields, body.limit)
    /\ UNCHANGED <<limiterVars, reply, contactVars, ingestVars>>

\* The handler of call c answers and the middleware finishes the request.
Return(c) ==
    /\ task[c] # NoTask
    /\ HandlerReply(c)
    /\ AfterHandler(task[c])
    /\ UNCHANGED <<clientVars, task, contactVars, ingestVars>>

\* The request bodies sent through the gateway.
GatewayRequests ==
    {b \in SearchReadRequests : b.limit = DefaultLimit /\ b.domain = <<>> /\ b.fields = <<>>}

\* The request task of call c has ended; c stands for a later task's call.
Forget(c) ==
    /\ pc[c] = "done"
    /\ reply[c] # NoReply
    /\ pc' = [pc EXCEPT ![c] = "idle"]
    /\ posts' = [posts EXCEPT ![c] = 0]
    /\ sleeps' = [sleeps EXCEPT ![c] = <<>>]
    /\ answers' = [answers EXCEPT ![c] = NoAnswers]
    /\ result' = [result EXCEPT ![c] = Pending]
    /\ op' = [op EXCEPT ![c] = NoOp]
    /\ url' = [url EXCEPT ![c] = <<>>]
    /\ payload' = [payload EXCEPT ![c] = NoBody]
    /\ wire' = [wire EXCEPT ![c] = {}]
    /\ task' = [task EXCEPT ![c] = NoTask]
    /\ reply' = [reply EXCEPT ![c] = NoReply]
    /\ UNCHANGED <<base_url, db, api_key, max_retries, sem, waiters, attempt, last_exc>>
    /\ UNCHANGED <<limiterVars, contactVars, ingestVars>>

\* The credentials and clock readings explored through the gateway: no
\* credential or one tenant's token, and the start of the second window.
GatewayAuths == {NoAuth, [scheme |-> "Bearer", cred |-> <<"b">>]}
GatewayClock == {60}

GatewayNext ==
    \/ \E auth \in GatewayAuths : Dispatch(OdooPath, auth)
    \/ \E q \in BagToSet(inflight), c \in RoutedCalls, body \in GatewayRequests :
          Handle(q, c, body)
    \/ \E c \in Calls, resp \in Responses : Respond(c, resp)
    \/ \E c \in Calls : WakeFromSleep(c)
    \/ \E c \in Calls : Return(c)
    \/ \E c \in Calls : Forget(c)
    \/ \E instant \in GatewayClock : Tick(instant)

----------------------------------------------------------------------------
(* POST /contact (main.py) *)

\* Concurrent submissions explored.
Submissions == 1..2

\* No GET /contacts answered yet.
NoListing == [status |-> 0]

ContactInit ==
    /\ supabase \in BOOLEAN
    /\ RESEND_API_KEY \in BOOLEAN
    /\ chatwoot \in {"unset", "set", "bad_inbox"}
    /\ LOCAL_STORE = <<>>
    /\ contacts = <<>>
    /\ cpc = [s \in Submissions |-> "idle"]
    /\ cresp = [s \in Submissions |-> 0]
    /\ mishaps = [s \in Submissions |-> {}]
    /\ listed = NoListing

\* Nothing configured and nobody submitting.
ContactAtRest == ContactInit /\ ~supabase /\ ~RESEND_API_KEY /\ chatwoot = "unset"

\* f"local-{n}"
LocalId(n) == <<"local-", n>>
\* The entry appended to LOCAL_STORE for submission s; the submitter's name
\* stands for the whole form.
LocalRecord(s) ==
    [id |-> LocalId(Len(LOCAL_STORE) + 1), name |-> s, status |-> "new",
     created_at |-> "(local)"]
\* The row inserted into the contacts table for submission s.
ContactRow(s) == [name |-> s, status |-> "new"]

\* What the insert answers: rows, no rows, or an exception.
InsertOutcomes == {"data", "no_data", "raise"}
\* What a post to the email service does; its status is never looked at.
EmailOutcomes == {"sent", "refused", "raise"}
\* What the post of the conversation does.
ConversationOutcomes == {"created", "no_id", "refused", "raise"}
\* What the post of the first message does.
MessageOutcomes == {"sent", "raise"}

\* A handler with no exception guard around the helpdesk step.
HelpdeskUnguarded(raised) == IF raised THEN 500 ELSE 201
\* create_contact after the helpdesk step: try/except Exception: pass, then
\* ContactResponse(ok=True) with the route's status 201.
HelpdeskGuard(raised) == 201
\* create_contact after the email step on the local path: the same guard.
EmailGuard(raised) == 201

\* Submission s leaves create_contact with the given status.
ContactReturns(s, status, mishap) ==
    /\ cpc' = [cpc EXCEPT ![s] = "done"]
    /\ cresp' = [cresp EXCEPT ![s] = status]
    /\ mishaps' = [mishaps EXCEPT ![s] = @ \cup mishap]
\* Submission s suspends at the await named by where.
Await(s, where, mishap) ==
    /\ cpc' = [cpc EXCEPT ![s] = where]
    /\ mishaps' = [mishaps EXCEPT ![s] = @ \cup mishap]
    /\ UNCHANGED cresp

\* create_chatwoot_conversation up to its first await: nothing to do without
\* its settings, int() of a malformed inbox id raises outside its own try.
EnterHelpdesk(s, mishap) ==
    CASE chatwoot = "unset" -> ContactReturns(s, HelpdeskGuard(FALSE), mishap)
      [] chatwoot = "bad_inbox" -> ContactReturns(s, HelpdeskGuard(TRUE), mishap \cup {"helpdesk"})
      [] OTHER -> Await(s, "chatwoot_conv", mishap)
\* After send_resend_emails: the local path answers, the datastore path goes on
\* to the helpdesk.
AfterEmails(s, mishap) ==
    IF supabase THEN EnterHelpdesk(s, mishap) ELSE ContactReturns(s, EmailGuard(FALSE), mishap)
\* send_resend_emails up to its first await: returns at once without a key.
EnterEmails(s) ==
    IF RESEND_API_KEY THEN Await(s, "emails_user", {}) ELSE AfterEmails(s, {})

\* POST /contact up to its first await.
create_contact(s, inserted) ==
    /\ cpc[s] = "idle"
    /\ IF ~supabase
       THEN /\ LOCAL_STORE' = Append(LOCAL_STORE, LocalRecord(s))
            /\ UNCHANGED contacts
            /\ EnterEmails(s)
       ELSE /\ UNCHANGED LOCAL_STORE
            /\ IF inserted = "data"
               THEN /\ contacts' = Append(contacts, ContactRow(s))
                    /\ EnterEmails(s)
               ELSE /\ UNCHANGED contacts
                    /\ ContactReturns(s, 500, {"database"})
    /\ UNCHANGED <<supabase, RESEND_API_KEY, chatwoot>>
    /\ UNCHANGED <<listed, clientVars, limiterVars, routeVars, ingestVars>>

\* The post of the confirmation email resolves; an exception is passed over.
EmailUser(s, out) ==
    /\ cpc[s] = "emails_user"
    /\ Await(s, "emails_admin", IF out = "sent" THEN {} ELSE {"email_user"})
    /\ UNCHANGED <<supabase, RESEND_API_KEY, chatwoot, LOCAL_STORE, contacts>>
    /\ UNCHANGED <<listed, clientVars, limiterVars, routeVars, ingestVars>>

\* The post of the notification email resolves; the sender returns True.
EmailAdmin(s, out) ==
    /\ cpc[s] = "emails_admin"
    /\ AfterEmails(s, IF out = "sent" THEN {} ELSE {"email_admin"})
    /\ UNCHANGED <<supabase, RESEND_API_KEY, chatwoot, LOCAL_STORE, contacts>>
    /\ UNCHANGED <<listed, clientVars, limiterVars, routeVars, ingestVars>>

\* The post of the conversation resolves: only a 200/201 with an id goes on to
\* the message; an exception makes the step return False.
ChatwootConversation(s, out) ==
    /\ cpc[s] = "chatwoot_conv"
    /\ IF out = "created"
       THEN Await(s, "chatwoot_msg", {})
       ELSE ContactReturns(s, HelpdeskGuard(FALSE), IF out = "no_id" THEN {} ELSE {"helpdesk"})
    /\ UNCHANGED <<supabase, RESEND_API_KEY, chatwoot, LOCAL_STORE, contacts>>
    /\ UNCHANGED <<listed, clientVars, limiterVars, routeVars, ingestVars>>

\* The post of the first message resolves.
ChatwootMessage(s, out) ==
    /\ cpc[s] = "chatwoot_msg"
    /\ ContactReturns(s, HelpdeskGuard(FALSE), IF out = "sent" THEN {} ELSE {"helpdesk"})
    /\ UNCHANGED <<supabase, RESEND_API_KEY, chatwoot, LOCAL_STORE, contacts>>
    /\ UNCHANGED <<listed, clientVars, limiterVars, routeVars, ingestVars>>

\* The default of list_contacts' parameter limit, the ceiling its datastore
\* query puts on it, and the values of limit and status explored ("" is no
\* status filter).
DefaultListLimit == 10
ListLimitCeiling == 100
ListLimits == {-1, 0, 1, DefaultListLimit}
StatusFilters == {"", "new", "closed"}

\* s[:n]: the first n elements, and for a negative n all but the last -n.
Slice(s, n) == SubSeq(s, 1, IF n >= 0 THEN Min(n, Len(s)) ELSE Max(Len(s) + n, 0))

RECURSIVE Reverse(_)
Reverse(s) == IF s = <<>> THEN <<>> ELSE Reverse(Tail(s)) \o <<Head(s)>>

\* select * order by created_at desc limit n, with the status filter when one
\* is given.
Query(status, n) ==
    LET Wanted(row) == status = "" \/ row.status = status
    IN  Slice(SelectSeq(Reverse(contacts), Wanted), n)

\* What the datastore does to the query; it refuses a negative limit.
QueryOutcomes(n) == IF n >= 0 THEN {"data", "raise"} ELSE {"raise"}

\* GET /contacts: the local store's slice and size, or the rows of the query.
list_contacts(limit, status, out) ==
    /\ IF ~supabase
       THEN listed' = [status |-> 200, asked |-> limit,
                       contacts |-> Slice(LOCAL_STORE, limit),
                       count |-> Len(LOCAL_STORE)]
       ELSE /\ out \in QueryOutcomes(Min(limit, ListLimitCeiling))
            /\ listed' = IF out = "data"
                         THEN [status |-> 200, asked |-> limit,
                               contacts |-> Query(status, Min(limit, ListLimitCeiling)),
                               count |-> Len(Query(status, Min(limit, ListLimitCeiling)))]
                         ELSE [status |-> 500, asked |-> limit, contacts |-> <<>>,
                               count |-> 0]
    /\ UNCHANGED <<supabase, RESEND_API_KEY, chatwoot, LOCAL_STORE, contacts, cpc, cresp,
                   mishaps>>
    /\ UNCHANGED <<clientVars, limiterVars, routeVars, ingestVars>>

ContactNext ==
    \/ \E limit \in ListLimits, status \in StatusFilters, out \in {"data", "raise"} :
          list_contacts(limit, status, out)
    \/ \E s \in Submissions, inserted \in InsertOutcomes : create_contact(s, inserted)
    \/ \E s \in Submissions, out \in EmailOutcomes : EmailUser(s, out)
    \/ \E s \in Submissions, out \in EmailOutcomes : EmailAdmin(s, out)
    \/ \E s \in Submissions, out \in ConversationOutcomes : ChatwootConversation(s, out)
    \/ \E s \in Submissions, out \in MessageOutcomes : ChatwootMessage(s, out)

----------------------------------------------------------------------------
(* POST /mcp/runtime/ingest (routers/runtime.py, routers/runtime_ingest.py) *)

\* Crawl reports explored.
Reports == 1..2

\* The two handlers registered for the path.
Handlers == {"ingest_scout_data", "ingest_runtime_data"}

\* A validated link: its status code and the flag is_broken that only
\* ingest_runtime_data's payload carries.
Link(code, broken) == [status_code |-> code, is_broken |-> broken]

\* A report; a semantic change is told by its impact level (impact_level in
\* runtime.py, change_type in runtime_ingest.py).
Report(links, urls_new, urls_removed, semantic_changes) ==
    [links |-> links, urls_new |-> urls_new, urls_removed |-> urls_removed,
     semantic_changes |-> semantic_changes]

\* The payloads explored: empty ones, status codes on both sides of 400, a
\* failed status that is not flagged broken, and critical and lesser changes.
Payloads ==
    {Report(<<>>, <<>>, <<>>, <<>>),
     Report(<<>>, <<"u">>, <<>>, <<"relevant">>),
     Report(<<Link(200, FALSE), Link(399, FALSE)>>, <<>>, <<>>, <<"relevant">>),
     Report(<<Link(400, TRUE)>>, <<"u">>, <<>>, <<>>),
     Report(<<Link(200, FALSE), Link(399, FALSE)>>, <<>>, <<"v">>, <<"critical", "minor">>),
     Report(<<Link(500, TRUE), Link(404, FALSE)>>, <<"u">>, <<"v">>, <<"critical", "minor">>),
     Report(<<Link(400, TRUE)>>, <<>>, <<>>, <<"critical", "critical">>)}
NoPayload == [links |-> <<>>, urls_new |-> <<>>, urls_removed |-> <<>>,
              semantic_changes |-> <<>>]

\* What a call on the datastore does.
DbOutcomes == {"ok", "raise"}
\* What the tenant lookup of ingest_runtime_data finds.
TenantOutcomes == {"found", "none", "raise"}

NotIngesting == [pc |-> "idle", handler |-> "", payload |-> NoPayload, execution_id |-> 0]
NoIngestResponse == [status |-> 0, execution_id |-> 0, alerts_created |-> 0]

IngestInit ==
    /\ runtime_executions = <<>>
    /\ runtime_link_validations = <<>>
    /\ runtime_url_deltas = <<>>
    /\ runtime_semantic_deltas = <<>>
    /\ runtime_alerts = <<>>
    /\ ingest = [r \in Reports |-> NotIngesting]
    /\ ingest_resp = [r \in Reports |-> NoIngestResponse]

\* [f(x) for x in s]
Each(s, F(_)) == [i \in 1..Len(s) |-> F(s[i])]

\* A link counts as failed from 401 on.
IsFailedStatusAbove400(code) == code > 400
\* l.status_code >= 400
IsFailedStatus(code) == code >= 400

\* The id the datastore gave the first row of the table.
InsertedIdOfFirstRow(tbl) == tbl[1].id
\* execution_result.data[0]["id"]: the id of the row just inserted, the last
\* of the table.
InsertedId(tbl) == tbl[Len(tbl)].id

\* The row of runtime_executions; the datastore numbers the rows.
ExecutionRow(r) == [id |-> Len(runtime_executions) + 1, scout_id |-> r]

\* The records ingest_scout_data inserts at each of its steps.
ScoutRows(stage, data, id) ==
    LET LinkRecord(l) == [execution_id |-> id, status_code |-> l.status_code]
        NewRecord(u) == [execution_id |-> id, url |-> u, delta_type |-> "new"]
        RemovedRecord(u) == [execution_id |-> id, url |-> u, delta_type |-> "removed"]
        SemanticRecord(c) == [execution_id |-> id, impact_level |-> c]
        IsBroken(l) == IsFailedStatus(l.status_code)
        IsCritical(c) == c = "critical"
        broken_links == SelectSeq(data.links, IsBroken)
        critical_changes == SelectSeq(data.semantic_changes, IsCritical)
    IN  CASE stage = "links" -> Each(data.links, LinkRecord)
          [] stage = "urls_new" -> Each(data.urls_new, NewRecord)
          [] stage = "urls_removed" -> Each(data.urls_removed, RemovedRecord)
          [] stage = "semantic" -> Each(data.semantic_changes, SemanticRecord)
          [] stage = "alerts" ->
                (IF broken_links # <<>>
                 THEN <<[execution_id |-> id, type |-> "link_failure",
                         count |-> Len(broken_links)]>>
                 ELSE <<>>)
                \o (IF critical_changes # <<>>
                    THEN <<[execution_id |-> id, type |-> "semantic_critical",
                            count |-> Len(critical_changes)]>>
                    ELSE <<>>)
          [] OTHER -> <<>>

\* The records ingest_runtime_data inserts at each of its steps.
RuntimeRows(stage, data, id) ==
    LET LinkRecord(l) == [execution_id |-> id, status_code |-> l.status_code,
                          is_broken |-> l.is_broken]
        NewRecord(u) == [execution_id |-> id, url |-> u, change_type |-> "new"]
        RemovedRecord(u) == [execution_id |-> id, url |-> u, change_type |-> "removed"]
        SemanticRecord(c) == [execution_id |-> id, change_type |-> c]
        IsBroken(l) == l.is_broken
        IsCritical(c) == c = "critical"
        broken_links == SelectSeq(data.links, IsBroken)
        critical_changes == SelectSeq(data.semantic_changes, IsCritical)
    IN  CASE stage = "links" -> Each(data.links, LinkRecord)
          [] stage = "url_deltas" ->
                Each(data.urls_new, NewRecord) \o Each(data.urls_removed, RemovedRecord)
          [] stage = "semantic" -> Each(data.semantic_changes, SemanticRecord)
          [] stage = "alerts" ->
                (IF broken_links # <<>>
                 THEN <<[execution_id |-> id, type |-> "link_broken",
                         count |-> Len(broken_links)]>>
                 ELSE <<>>)
                \o (IF critical_changes # <<>>
                    THEN <<[execution_id |-> id, type |-> "semantic_change_critical",
                            count |-> Len(critical_changes)]>>
                    ELSE <<>>)
          [] OTHER -> <<>>

\* The steps of each handler after the execution insert, in order.
StagesOf(handler) ==
    IF handler = "ingest_scout_data"
    THEN <<"links", "urls_new", "urls_removed", "semantic", "alerts">>
    ELSE <<"links", "url_deltas", "semantic", "alerts">>
RowsOf(handler, stage, data, id) ==
    IF handler = "ingest_scout_data" THEN ScoutRows(stage, data, id)
    ELSE RuntimeRows(stage, data, id)

\* The status each handler gives a failure of the datastore.
ErrorStatus(handler) == IF handler = "ingest_scout_data" THEN 500 ELSE 400

RECURSIVE NextDue(_, _, _, _)
\* The first step from position k on that has records to insert ("if
\* records:"), "done" when there is none.
NextDue(handler, data, id, k) ==
    IF k > Len(StagesOf(handler)) THEN "done"
    ELSE IF RowsOf(handler, StagesOf(handler)[k], data, id) # <<>>
         THEN StagesOf(handler)[k]
    ELSE NextDue(handler, data, id, k + 1)
Position(handler, stage) ==
    CHOOSE k \in 1..Len(StagesOf(handler)) : StagesOf(handler)[k] = stage

\* A handler never awaits: a report is taken when no other is under way.
Idle == \A r \in Reports : ingest[r].pc \in {"idle", "done"}

\* Report r goes on to its next due step, or returns when none is left.
GoOn(r, handler, data, id, k) ==
    LET next == NextDue(handler, data, id, k)
    IN  /\ ingest' = [ingest EXCEPT ![r] = [pc |-> next, handler |-> handler,
                                            payload |-> data, execution_id |-> id]]
        /\ ingest_resp' =
               IF next = "done"
               THEN [ingest_resp EXCEPT ![r] =
                        [status |-> 200, execution_id |-> id,
                         alerts_created |-> Len(RowsOf(handler, "alerts", data, id))]]
               ELSE ingest_resp

\* Report r ends in except: the error response, and nothing is taken back.
Fail(r, handler, data, id, status) ==
    /\ ingest' = [ingest EXCEPT ![r] = [pc |-> "done", handler |-> handler,
                                        payload |-> data, execution_id |-> id]]
    /\ ingest_resp' = [ingest_resp EXCEPT ![r] =
                          [status |-> status, execution_id |-> 0, alerts_created |-> 0]]

\* The execution insert and what follows it up to the next call on the datastore.
InsertExecution(r, handler, data, out) ==
    IF out = "ok"
    THEN /\ runtime_executions' = Append(runtime_executions, ExecutionRow(r))
         /\ GoOn(r, handler, data, InsertedId(runtime_executions'), 1)
    ELSE /\ UNCHANGED runtime_executions
         /\ Fail(r, handler, data, 0, ErrorStatus(handler))

\* POST /mcp/runtime/ingest of runtime.py, from its arrival: the execution
\* insert comes first.
ingest_scout_data(r, data, out) ==
    /\ Idle /\ ingest[r].pc = "idle"
    /\ InsertExecution(r, "ingest_scout_data", data, out)
    /\ UNCHANGED <<runtime_link_validations, runtime_url_deltas, runtime_semantic_deltas,
                   runtime_alerts>>
    /\ UNCHANGED <<clientVars, limiterVars, routeVars, contactVars>>

\* POST /mcp/runtime/ingest of runtime_ingest.py, from its arrival: the tenant
\* lookup comes first; an unknown tenant is a 404.
ingest_runtime_data(r, data, found) ==
    /\ Idle /\ ingest[r].pc = "idle"
    /\ CASE found = "found" ->
                /\ ingest' = [ingest EXCEPT ![r] =
                                [pc |-> "execution", handler |-> "ingest_runtime_data",
                                 payload |-> data, execution_id |-> 0]]
                /\ UNCHANGED ingest_resp
         [] found = "none" -> Fail(r, "ingest_runtime_data", data, 0, 404)
         [] OTHER -> Fail(r, "ingest_runtime_data", data, 0, ErrorStatus("ingest_runtime_data"))
    /\ UNCHANGED <<runtime_executions, runtime_link_validations, runtime_url_deltas,
                   runtime_semantic_deltas, runtime_alerts>>
    /\ UNCHANGED <<clientVars, limiterVars, routeVars, contactVars>>

\* ingest_runtime_data inserts its execution.
RuntimeExecution(r, out) ==
    /\ ingest[r].pc = "execution"
    /\ InsertExecution(r, ingest[r].handler, ingest[r].payload, out)
    /\ UNCHANGED <<runtime_link_validations, runtime_url_deltas, runtime_semantic_deltas,
                   runtime_alerts>>
    /\ UNCHANGED <<clientVars, limiterVars, routeVars, contactVars>>

\* Report r makes the insert of the step it is at, and goes on or fails.
Insert(r, stages, tbl, out) ==
    LET h == ingest[r].handler
        id == ingest[r].execution_id
        rows == RowsOf(h, ingest[r].pc, ingest[r].payload, id)
    IN  /\ ingest[r].pc \in stages
        /\ IF out = "ok"
           THEN /\ tbl' = tbl \o rows
                /\ GoOn(r, h, ingest[r].payload, id, Position(h, ingest[r].pc) + 1)
           ELSE /\ UNCHANGED tbl
                /\ Fail(r, h, ingest[r].payload, id, ErrorStatus(h))
        /\ UNCHANGED runtime_executions
        /\ UNCHANGED <<clientVars, limiterVars, routeVars, contactVars>>

InsertLinkValidations(r, out) ==
    /\ Insert(r, {"links"}, runtime_link_validations, out)
    /\ UNCHANGED <<runtime_url_deltas, runtime_semantic_deltas, runtime_alerts>>
InsertUrlDeltas(r, out) ==
    /\ Insert(r, {"urls_new", "urls_removed", "url_deltas"}, runtime_url_deltas, out)
    /\ UNCHANGED <<runtime_link_validations, runtime_semantic_deltas, runtime_alerts>>
InsertSemanticDeltas(r, out) ==
    /\ Insert(r, {"semantic"}, runtime_semantic_deltas, out)
    /\ UNCHANGED <<runtime_link_validations, runtime_url_deltas, runtime_alerts>>
InsertAlerts(r, out) ==
    /\ Insert(r, {"alerts"}, runtime_alerts, out)
    /\ UNCHANGED <<runtime_link_validations, runtime_url_deltas, runtime_semantic_deltas>>

IngestNext ==
    \/ \E r \in Reports, data \in Payloads, out \in DbOutcomes :
          ingest_scout_data(r, data, out)
    \/ \E r \in Reports, data \in Payloads, found \in TenantOutcomes :
          ingest_runtime_data(r, data, found)
    \/ \E r \in Reports, out \in DbOutcomes : RuntimeExecution(r, out)
    \/ \E r \in Reports, out \in DbOutcomes : InsertLinkValidations(r, out)
    \/ \E r \in Reports, out \in DbOutcomes : InsertUrlDeltas(r, out)
    \/ \E r \in Reports, out \in DbOutcomes : InsertSemanticDeltas(r, out)
    \/ \E r \in Reports, out \in DbOutcomes : InsertAlerts(r, out)

----------------------------------------------------------------------------
(* Specifications *)

\* The shared client under concurrent callers; the limiter is at rest.
InitClient == ClientInit /\ LimiterInit /\ rate_limit = 1 /\ RouteInit /\ ContactAtRest /\ IngestInit
SpecClient == InitClient /\ [][ClientNext]_vars

\* The shared client when the event loop runs every ready coroutine and the
\* backend answers (or times out) every attempt; callers arrive when they like.
ClientFairness ==
    \A c \in Calls :
        /\ WF_vars(Resume(c))
        /\ WF_vars(WakeFromSleep(c))
        /\ WF_vars(\E resp \in Responses : Respond(c, resp))
\* The retry budgets explored under fairness.
FairRetries == {0, 1}
InitFairClient == InitClient /\ Configured /\ max_retries \in FairRetries
FairSpecClient == InitFairClient /\ [][ClientNext]_vars /\ ClientFairness

\* The /odoo routes over the shared client; the limiter is at rest.
RouteRetries == {0, 1}
InitRoutes ==
    /\ ClientInit /\ base_url # <<>> /\ api_key # "" /\ max_retries \in RouteRetries
    /\ LimiterInit /\ rate_limit = 1
    /\ RouteInit /\ ContactAtRest /\ IngestInit
SpecRoutes == InitRoutes /\ [][RoutesNext]_vars

\* The gateway: requests pass the limiter, then the handler, then the client.
InitGateway ==
    /\ ClientInit /\ Configured /\ max_retries \in RouteRetries
    /\ LimiterInit
    /\ RouteInit /\ ContactAtRest /\ IngestInit
SpecGateway == InitGateway /\ [][GatewayNext]_vars

\* The limiter under concurrent requests; the client is at rest.
InitLimiter ==
    LimiterInit /\ ClientInit /\ Configured /\ max_retries = MaxRetries /\ RouteInit
        /\ ContactAtRest /\ IngestInit
SpecLimiter == InitLimiter /\ [][LimiterNext]_vars

\* POST /contact under concurrent submissions and every configuration; the
\* client and the limiter are at rest.
InitContact ==
    /\ ClientInit /\ Configured /\ max_retries = MaxRetries
    /\ LimiterInit /\ rate_limit = 1
    /\ RouteInit /\ ContactInit /\ IngestInit
SpecContact == InitContact /\ [][ContactNext]_vars

\* POST /mcp/runtime/ingest with either handler; everything else is at rest.
InitIngest ==
    /\ ClientInit /\ Configured /\ max_retries = MaxRetries
    /\ LimiterInit /\ rate_limit = 1
    /\ RouteInit /\ ContactAtRest /\ IngestInit
SpecIngest == InitIngest /\ [][IngestNext]_vars

----------------------------------------------------------------------------
(* Properties of the resilient client, checked under SpecClient *)

\* The answers the code means to retry: a 5xx status or a transport failure.
IsTransient(resp) == resp.kind = "raise" \/ (resp.kind = "status" /\ resp.code >= 500)
Is4xx(resp) == resp.kind = "status" /\ resp.code >= 400 /\ resp.code < 500
R200 == [kind |-> "status", code |-> 200, json |-> TRUE]
R404 == [kind |-> "status", code |-> 404, json |-> TRUE]
R500 == [kind |-> "status", code |-> 500, json |-> TRUE]
RTimeout == [kind |-> "raise", code |-> 0, json |-> FALSE]

\* The calls that have acquired the gate and not yet resolved.
Holders == {c \in Calls : pc[c] \in {"woken", "posting", "sleeping"}}
Unconfigured == base_url = <<>> \/ db = "" \/ api_key = ""
AllDone == \A c \in Calls : pc[c] = "done"

\* C1: at most MaxConcurrency calls have acquired the gate and not resolved,
\* every call with a network attempt outstanding is one of them, and a call
\* issues its first attempt only while fewer than MaxConcurrency other calls
\* hold the gate; one that had to wait does so only after a call has resolved.
C1_AtMostNInFlight ==
    /\ [](/\ Cardinality(Holders) <= MaxConcurrency
          /\ \A c \in Calls : (posts[c] > 0 /\ pc[c] # "done") => c \in Holders
          /\ \A c \in Calls : pc[c] = "waiting" => posts[c] = 0)
    /\ [][\A c \in Calls :
            (posts[c] = 0 /\ posts'[c] = 1) =>
                /\ Cardinality(Holders \ {c}) < MaxConcurrency
                /\ pc[c] = "woken" => \E d \in Calls \ {c} : pc[d] = "done"]_vars

\* C1 witness: every slot is taken and one more caller is suspended.
C1_Witness ==
    /\ Cardinality(Holders) = MaxConcurrency
    /\ \E c \in Calls : pc[c] = "waiting"
    /\ \A c \in Holders : pc[c] = "posting"

\* C2: once the backend has answered an attempt with a 4xx status the call is
\* over: the error is raised, no further attempt is made and, when the 4xx
\* came on the first attempt, nothing was slept.
C2_4xxIsTerminal ==
    \A c \in Calls :
        Is4xx(answers[c].last) =>
            /\ pc[c] = "done"
            /\ result[c] = Raised(AttemptOutcome(answers[c].last))
            /\ posts[c] = answers[c].n
            /\ (answers[c].n = 1 => sleeps[c] = <<>>)

\* C3: a call whose every attempt so far was answered with a 5xx status or a
\* transport failure keeps retrying while it has made at most max_retries
\* attempts, and at attempt max_retries+1 it raises the error of that attempt.
C3_ExhaustionAfterMaxRetriesPlusOne ==
    \A c \in Calls :
        (answers[c].n > 0 /\ \A f \in answers[c].failed \cup {answers[c].last} : IsTransient(f)) =>
            IF answers[c].n <= max_retries
            THEN /\ pc[c] \in {"sleeping", "posting"}
                 /\ result[c] = Pending
                 /\ posts[c] \in {answers[c].n, answers[c].n + 1}
            ELSE /\ answers[c].n = max_retries + 1
                 /\ posts[c] = max_retries + 1
                 /\ Len(sleeps[c]) = max_retries
                 /\ pc[c] = "done"
                 /\ result[c] = Raised(AttemptOutcome(answers[c].last))

\* C3 witness: with three retries, four attempts failed with a timeout and
\* with 500s, the last one a 500, and that 500 is what the call raised.
C3_Witness ==
    \E c \in Calls :
        /\ max_retries = 3
        /\ answers[c] = [n |-> 4, last |-> R500, failed |-> {R500, RTimeout}]
        /\ result[c] = Raised([type |-> "HTTPStatusError", status |-> 500])
        /\ posts[c] = 4

\* C4: with max_retries = 3, a call answered 500, 500 and then 200 returns
\* ok after exactly three attempts and two sleeps, of 500 ms and 1000 ms.
C4_TwoFailuresThenSuccess ==
    \A c \in Calls :
        (max_retries = 3 /\ answers[c] = [n |-> 3, last |-> R200, failed |-> {R500}]) =>
            /\ pc[c] = "done"
            /\ result[c] = Returned
            /\ posts[c] = 3
            /\ sleeps[c] = <<500, 1000>>

\* C4 witness: the backend has answered 500, 500, 200 to one call.
C4_Witness ==
    \E c \in Calls :
        /\ max_retries = 3
        /\ answers[c] = [n |-> 3, last |-> R200, failed |-> {R500}]
        /\ result[c].status = "ok"

\* C5: while base URL, database or credential is missing, no call ever posts,
\* sleeps, takes a slot or queues for one; a call that ran raised the
\* configuration error.
C5_UnconfiguredFailsAtOnce ==
    Unconfigured =>
        /\ sem = MaxConcurrency
        /\ waiters = <<>>
        /\ \A c \in Calls :
            /\ pc[c] \in {"idle", "done"}
            /\ posts[c] = 0
            /\ sleeps[c] = <<>>
            /\ answers[c] = NoAnswers
            /\ pc[c] = "done" => result[c] = Raised(ConfigError)

\* C5 witness: only the database name is missing and every call has failed.
C5_Witness ==
    /\ base_url # <<>> /\ db = "" /\ api_key # ""
    /\ \A c \in Calls : result[c] = Raised(ConfigError)

\* C6: free slots plus calls holding a slot is MaxConcurrency in every state;
\* a call with an attempt or a sleep outstanding holds a slot; a resolved or
\* not yet admitted call holds none; when all calls have resolved every slot
\* is free again.
C6_SlotsConserved ==
    /\ sem >= 0
    /\ sem + Cardinality(Holders) = MaxConcurrency
    /\ \A c \in Calls : (posts[c] > 0 /\ pc[c] # "done") => c \in Holders
    /\ AllDone => sem = MaxConcurrency

\* C6 witness: every call has resolved, one of them after retrying, one by
\* success and one by failure, and the gate is full again.
C6_Witness ==
    /\ AllDone
    /\ sem = MaxConcurrency
    /\ \E c \in Calls : Len(sleeps[c]) > 0
    /\ \E c \in Calls : result[c] = Returned
    /\ \E c \in Calls : result[c].status = "raised" /\ posts[c] = max_retries + 1

\* C14: under the /odoo handlers, a response exists only for a resolved call
\* and only the handler's return step makes it; a call that raised, whatever
\* the exception, is answered 502 with the exception's text, and 200 is
\* answered only for a call that returned.
C14_FailuresBecome502 ==
    /\ [](\A c \in Calls :
            reply[c] # NoReply =>
                /\ pc[c] = "done"
                /\ result[c].status = "raised" =>
                      reply[c] = [status |-> 502, detail |-> Str(result[c].exc)]
                /\ reply[c].status = 200 => result[c] = Returned
                /\ reply[c].status \in {200, 502})
    /\ [][\A c \in Calls : reply'[c] # reply[c] => RouteReturns(c)]_vars

\* C14 witness: a routed call that used up its retries on server errors has
\* been answered 502 "Server error".
C14_Witness ==
    \E c \in RoutedCalls :
        /\ max_retries = 1 /\ posts[c] = 2
        /\ result[c] = Raised([type |-> "HTTPStatusError", status |-> 500])
        /\ reply[c] = [status |-> 502, detail |-> "Server error"]

\* What the public operation o should put on the wire.
ExpectedMethod(o) == IF o.name = "call" THEN o.method ELSE o.name
ExpectedJson(o) ==
    CASE o.name = "search_read" ->
           [domain |-> o.domain, fields |-> o.fields,
            limit |-> IF o.limit = Omitted THEN 80 ELSE o.limit]
      [] o.name = "create" -> [values |-> o.values]
      [] o.name = "write" -> [ids |-> <<o.record_id>>, values |-> o.values]
      [] o.name = "unlink" -> [ids |-> <<o.record_id>>]
      [] o.name = "call" -> o.params

\* C19: everything a public operation has posted, first attempt and retries
\* alike, is the one request POST base_url/json/2/model/operation with the
\* operation's own body; nothing is posted before the first attempt.
C19_OperationRequests ==
    \A c \in Calls :
        op[c] # NoOp =>
            /\ posts[c] = 0 => wire[c] = {}
            /\ posts[c] > 0 =>
                  \A r \in wire[c] :
                      /\ r.url = base_url \o <<"/json/2/", op[c].model, "/", ExpectedMethod(op[c])>>
                      /\ r.json = ExpectedJson(op[c])
            /\ posts[c] > 0 => wire[c] # {}

\* C19 witness: a write has been retried, and a search_read that left the
\* limit out has posted.
C19_Witness ==
    \E c \in RoutedCalls :
        /\ op[c].name = "write" /\ posts[c] = 2
        /\ wire[c] = {[url |-> <<"e", "/json/2/", "res.partner", "/", "write">>,
                       json |-> [ids |-> <<7>>, values |-> [name |-> "n"]],
                       headers |-> Headers]}

\* The failures among the answers call c has had so far.
Failures(c) ==
    answers[c].failed \cup
        (IF answers[c].n > 0 /\ ~IsSuccess(answers[c].last) THEN {answers[c].last} ELSE {})

\* The backoff sleeps that follow k transient failures: 500, 1000, 2000, ...
Backoffs(k) == [i \in 1..k |-> BackoffFactorMs * 2 ^ (i - 1)]

\* C18: the sleeps of a call double from backoff_factor on; a call whose
\* failures were all transient has slept once per failure (not after the one
\* that used up the retries), the k-th time for backoff_factor * 2^(k-1); and
\* a call that has had no transient failure has not slept.
C18_SleepsFollowTransientFailures ==
    \A c \in Calls :
        /\ \A i \in 1..Len(sleeps[c]) :
              sleeps[c][i] = IF i = 1 THEN BackoffFactorMs ELSE 2 * sleeps[c][i - 1]
        /\ (\A f \in Failures(c) : IsTransient(f)) =>
              LET k == IF IsSuccess(answers[c].last) THEN answers[c].n - 1 ELSE answers[c].n
              IN  sleeps[c] = Backoffs(Min(k, max_retries))
        /\ (\A f \in Failures(c) : ~IsTransient(f)) => sleeps[c] = <<>>

\* C15: a caller that finds every slot taken is suspended with no result and
\* no attempt, never fails while suspended, and, when the event loop and the
\* backend are fair, goes on to issue its first attempt.
C15_SuspendedCallerProceeds ==
    /\ [][\A c \in Calls :
            (Configured /\ sem = 0 /\ pc[c] = "idle" /\ pc'[c] # "idle") =>
                (pc'[c] = "waiting" /\ result'[c] = Pending /\ posts'[c] = 0)]_vars
    /\ [][\A c \in Calls :
            (pc[c] = "waiting" /\ pc'[c] # "waiting") =>
                (pc'[c] = "woken" /\ result'[c] = Pending)]_vars
    /\ \A c \in Calls : (pc[c] = "waiting") ~> (posts[c] >= 1 /\ pc[c] # "waiting")

\* C15 witness: a caller that was suspended has been handed the slot of a
\* call that resolved after retrying.
C15_Witness ==
    \E c \in Calls, d \in Calls :
        /\ pc[c] = "woken" /\ posts[c] = 0
        /\ pc[d] = "done" /\ Len(sleeps[d]) > 0
        /\ sem = 0

----------------------------------------------------------------------------
(* Properties of the rate limiter, checked under SpecLimiter *)

CurrentKey(t) == <<t, now \div WindowSeconds>>
AtLimit(t) == CurrentKey(t) \in DOMAIN counters /\ counters[CurrentKey(t)] = rate_limit
BearerTenant(a) == SubSeq(a.cred, 1, Min(Len(a.cred), TenantPrefixLen))

\* C7: within one window no tenant gets more than rate_limit requests to a
\* limited path admitted: the request after the limit-th, and every further
\* one, is rejected.
C7_FixedWindow == \A t \in Tenants : admitted[t] <= rate_limit

\* C8: the counter of the current window never exceeds the number of requests
\* admitted in the current window, and a bearer request to a limited path by
\* a tenant admitted fewer than rate_limit times in the current window is
\* admitted, whatever the entries of earlier windows say.
C8_WindowRollover ==
    /\ [](\A t \in Tenants :
            CurrentKey(t) \in DOMAIN counters => counters[CurrentKey(t)] <= admitted[t])
    /\ [][\A p \in Paths \ AllowList, a \in AuthHeaders :
            (a.scheme = "Bearer" /\ admitted[BearerTenant(a)] < rate_limit /\ Dispatch(p, a)) =>
                /\ admitted'[BearerTenant(a)] = admitted[BearerTenant(a)] + 1
                /\ BagCardinality(inflight') = BagCardinality(inflight) + 1
                /\ response' = response]_vars

\* C8 witness: a tenant that used up window 0 and was rejected there has been
\* admitted rate_limit times again in window 1, its window 0 entry still
\* standing at the limit.
C8_Witness ==
    \E t \in Tenants :
        /\ rate_limit = MaxLimit
        /\ now = 60
        /\ <<t, 0>> \in DOMAIN counters /\ counters[<<t, 0>>] = rate_limit
        /\ response = [status |-> 429, limit |-> rate_limit, remaining |-> 0,
                       reset |-> WindowSeconds]
        /\ admitted[t] = rate_limit

\* C9: a request to an allow-listed path goes to its handler whatever the
\* counter table holds, and neither its arrival nor its completion changes
\* any counter or makes the limiter reject.
C9_AllowListBypass ==
    /\ [][\A p \in Paths \cap AllowList, a \in AuthHeaders :
            Dispatch(p, a) =>
                /\ inflight' = inflight (+) SetToBag({Bypassed("path")})
                /\ counters' = counters
                /\ response' = response]_vars
    /\ [][Finish(Bypassed("path")) =>
            (counters' = counters /\ response' = PassedThrough)]_vars

\* C9 witness: every tenant is at its limit in the current window and a
\* request to an allow-listed path is in its handler.
C9_Witness ==
    /\ \A t \in Tenants : AtLimit(t)
    /\ BagIn(Bypassed("path"), inflight)

\* C10: a request without a bearer credential goes to its handler whatever
\* the counter table holds, and neither its arrival nor its completion
\* changes any counter or makes the limiter reject.
C10_UnauthenticatedBypass ==
    /\ [][\A p \in Paths, a \in AuthHeaders :
            (a.scheme # "Bearer" /\ Dispatch(p, a)) =>
                /\ inflight' = inflight (+)
                       SetToBag({Bypassed(IF p \in AllowList THEN "path" ELSE "auth")})
                /\ counters' = counters
                /\ response' = response]_vars
    /\ [][Finish(Bypassed("auth")) =>
            (counters' = counters /\ response' = PassedThrough)]_vars

\* C10 witness: as many credential-less requests to a limited path as fit are
\* in their handlers at once, in a window in which a tenant was rejected.
C10_Witness ==
    /\ CopiesIn(Bypassed("auth"), inflight) = MaxInflight
    /\ \E t \in Tenants : AtLimit(t)
    /\ response.status = 429 /\ response.reset = WindowEnd(now \div WindowSeconds)

\* The limited request tasks of tenant t admitted in the current window and
\* still in their handlers.
InFlightNow(t) ==
    {q \in BagToSet(inflight) :
        q.bypass = "" /\ q.tenant = t /\ q.window = now \div WindowSeconds}

\* C11: a rejection carries Remaining 0 and the configured Limit, an admitted
\* request's response carries the configured Limit and a Remaining between 0
\* and limit-1, and within one window the k-th admitted request of a tenant is
\* the one that read the counter at k-1 (its Remaining is limit-k): no two
\* requests in flight read the same count and none read a count at or above
\* the number admitted so far.
C11_HeaderAccuracy ==
    /\ response.status = 429 =>
          (response.remaining = 0 /\ response.limit = rate_limit)
    /\ (response.status = 200 /\ response.limit # -1) =>
          (response.limit = rate_limit /\ response.remaining \in 0..(rate_limit - 1))
    /\ \A t \in Tenants : \A q \in InFlightNow(t) :
          /\ CopiesIn(q, inflight) = 1
          /\ q.count < admitted[t]

\* C12: a bearer request to a limited path that finds its tenant's counter
\* for the current window at or above the limit is answered 429 and changes
\* neither the counter table nor the set of requests in their handlers.
C12_RejectionHasNoEffect ==
    [][\A p \in Paths \ AllowList, a \in AuthHeaders :
        (/\ a.scheme = "Bearer"
         /\ CurrentKey(BearerTenant(a)) \in DOMAIN counters
         /\ counters[CurrentKey(BearerTenant(a))] >= rate_limit
         /\ Dispatch(p, a)) =>
            /\ counters' = counters
            /\ inflight' = inflight
            /\ admitted' = admitted
            /\ response'.status = 429]_vars

\* C12 witness: in the last second of a window a tenant at its limit has
\* been rejected while no request is in its handler.
C12_Witness ==
    \E t \in Tenants :
        /\ now = 59
        /\ AtLimit(t)
        /\ admitted[t] = rate_limit
        /\ response = [status |-> 429, limit |-> rate_limit, remaining |-> 0,
                       reset |-> WindowSeconds]
        /\ inflight = EmptyBag

C17_NoLostIncrement ==
    \A t \in Tenants :
        /\ Count(counters, CurrentKey(t)) = admitted[t]
        /\ admitted[t] <= rate_limit

----------------------------------------------------------------------------
(* Properties of the gateway, checked under SpecGateway *)

----------------------------------------------------------------------------
(* Properties of POST /contact, checked under SpecContact *)

\* The record of submission s is in the store the configuration selects.
Stored(s) ==
    \/ \E i \in DOMAIN LOCAL_STORE : LOCAL_STORE[i].name = s
    \/ \E i \in DOMAIN contacts : contacts[i].name = s
\* Submission s is in its email or helpdesk steps.
InSideSteps(s) == cpc[s] \in {"emails_user", "emails_admin", "chatwoot_conv", "chatwoot_msg"}

\* C20: a submission whose record was stored answers 201 whatever its email
\* and helpdesk steps do: no such step touches either store, a stored record
\* stays stored, and the submission never leaves with another status.
C20_SideStepsNeverFailStoredSubmission ==
    [][\A s \in Submissions :
          /\ Stored(s) => Stored(s)'
          /\ (InSideSteps(s) /\ cpc'[s] # cpc[s]) =>
                 /\ Stored(s)
                 /\ LOCAL_STORE' = LOCAL_STORE /\ contacts' = contacts
          /\ (Stored(s)' /\ cpc'[s] = "done") => cresp'[s] = 201]_vars
\* A stored submission has answered 201 although both of its emails failed and
\* its helpdesk step raised.
C20_Witness ==
    \E s \in Submissions :
        /\ supabase /\ chatwoot = "bad_inbox"
        /\ Stored(s) /\ cpc[s] = "done" /\ cresp[s] = 201
        /\ mishaps[s] = {"email_user", "email_admin", "helpdesk"}

----------------------------------------------------------------------------
(* Further properties of the resilient client *)

\* C21: a configured call that holds a slot has made between 1 and
\* max_retries+1 attempts; an answer that is a parseable 2xx ends the call at
\* once with ok and no further attempt or sleep, any other end is a raised
\* exception, a resolved call does nothing more, and, when the event loop
\* and the backend are fair, every call that holds a slot resolves.
C21_AcquiredCallTerminates ==
    /\ [][\A c \in Calls :
            /\ pc'[c] \in {"posting", "sleeping", "done"} =>
                   (posts'[c] >= 1 /\ posts'[c] <= max_retries + 1)
            /\ \A resp \in Responses :
                   Respond(c, resp) =>
                       IF IsSuccess(resp)
                       THEN /\ pc'[c] = "done" /\ result'[c] = Returned
                            /\ posts'[c] = posts[c] /\ sleeps'[c] = sleeps[c]
                       ELSE /\ result'[c] # Returned
                            /\ pc'[c] = "done" => result'[c] = Raised(AttemptOutcome(resp))
            /\ pc[c] = "done" =>
                   /\ pc'[c] = "done" /\ result'[c] = result[c]
                   /\ posts'[c] = posts[c] /\ sleeps'[c] = sleeps[c]]_vars
    /\ \A c \in Calls : (pc[c] \in {"posting", "sleeping"}) ~> (pc[c] = "done")
\* C21 witness: with one retry, one call resolved ok at its second attempt and
\* another raised after two failed attempts.
C21_Witness ==
    \E c \in Calls, d \in Calls :
        /\ max_retries = 1
        /\ pc[c] = "done" /\ result[c] = Returned /\ posts[c] = 2
        /\ pc[d] = "done" /\ result[d].status = "raised" /\ posts[d] = 2

\* The exception json() raises on a body that cannot be parsed.
JSONDecodeError == [type |-> "JSONDecodeError", status |-> 0]
R200Unparseable == [kind |-> "status", code |-> 200, json |-> FALSE]

\* C23: a call whose attempt failed with an exception outside the
\* HTTP/transport family (a 2xx whose body cannot be parsed) is over with that
\* answer: it raised that exception, posted nothing after it, slept only for
\* the failures before it, and holds no slot, the gate's count being whole.
C23_OtherExceptionPropagates ==
    \A c \in Calls :
        AttemptOutcome(answers[c].last) = JSONDecodeError =>
            /\ pc[c] = "done"
            /\ result[c] = Raised(JSONDecodeError)
            /\ posts[c] = answers[c].n
            /\ Len(sleeps[c]) = answers[c].n - 1
            /\ c \notin Holders
            /\ sem + Cardinality(Holders) = MaxConcurrency
\* C23 witness: a call with retries left raised the parse error of its first
\* answer without sleeping, and its slot went to the caller that was waiting.
C23_Witness ==
    \E c \in Calls, d \in Calls :
        /\ max_retries = MaxRetries
        /\ pc[c] = "done" /\ result[c] = Raised(JSONDecodeError)
        /\ answers[c] = [n |-> 1, last |-> R200Unparseable, failed |-> {R200Unparseable}]
        /\ posts[c] = 1 /\ sleeps[c] = <<>>
        /\ pc[d] = "woken"

\* The call ended by raising an exception of the family the loop retries.
Exhausted(c) == pc[c] = "done" /\ result[c].status = "raised" /\ Caught(result[c].exc)

\* C24: no call sleeps after its last failed attempt: a call never sleeps more
\* than max_retries times, every sleep is followed by an attempt, the answer
\* to attempt max_retries+1 resolves the call in the same step, and a call
\* that used up its retries has posted max_retries+1 times, slept max_retries
\* times, raised the error of its last attempt and holds no slot.
C24_NoSleepAfterLastAttempt ==
    \A c \in Calls :
        /\ Len(sleeps[c]) <= max_retries
        /\ pc[c] = "sleeping" => Len(sleeps[c]) = posts[c]
        /\ pc[c] \in {"posting", "done"} /\ posts[c] > 0 => Len(sleeps[c]) = posts[c] - 1
        /\ answers[c].n = max_retries + 1 => pc[c] = "done"
        /\ Exhausted(c) =>
              /\ posts[c] = max_retries + 1
              /\ answers[c].n = max_retries + 1
              /\ Len(sleeps[c]) = max_retries
              /\ result[c] = Raised(AttemptOutcome(answers[c].last))
              /\ c \notin Holders
\* C24 witness: with two retries a call has raised after three failed attempts
\* and two sleeps, and the slot it held is free again.
C24_Witness ==
    \E c \in Calls :
        /\ max_retries = 2
        /\ Exhausted(c)
        /\ posts[c] = 3 /\ sleeps[c] = <<500, 1000>>
        /\ sem = MaxConcurrency

\* What a call's own answers make of it, whatever the other calls did.
OwnOutcome(c) ==
    IF IsSuccess(answers[c].last) THEN Returned
    ELSE Raised(AttemptOutcome(answers[c].last))

----------------------------------------------------------------------------
(* Further properties of the rate limiter, checked under SpecLimiter *)

\* C22: the counter table has one counter per (tenant, window) pair, each
\* between 1 and the limit; a counter appears with the value 1, grows by
\* exactly 1, both only when a request of that tenant and window is let
\* through, and otherwise only disappears.
C22_CounterTable ==
    [][/\ \A k \in DOMAIN counters' :
             /\ (k[1] \in Tenants /\ k[2] = Window(now)) \/ k \in DOMAIN counters
             /\ counters'[k] >= 1 /\ counters'[k] <= rate_limit
       /\ \A k \in DOMAIN counters' :
             Count(counters, k) # counters'[k] =>
                 /\ counters'[k] = Count(counters, k) + 1
                 /\ k[2] = Window(now)
                 /\ inflight' = inflight (+) SetToBag({Limited(k[1], k[2], Count(counters, k))})
                 /\ \A j \in DOMAIN counters' \ {k} : Count(counters, j) = counters'[j]]_vars
\* C22 witness: a tenant's counter stands at the limit 2 beside the counters
\* the earlier window left for it and for another tenant.
C22_Witness ==
    /\ rate_limit = 2
    /\ \E t \in Tenants, u \in Tenants :
          /\ u # t
          /\ <<t, 0>> \in DOMAIN counters /\ <<t, 1>> \in DOMAIN counters
          /\ counters[<<t, 1>>] = 2
          /\ <<u, 0>> \in DOMAIN counters

----------------------------------------------------------------------------
(* Further properties of POST /contact and GET /contacts, checked under SpecContact *)

\* The first n entries of s: none when n is not positive.
FirstEntries(s, n) == SubSeq(s, 1, Min(Max(n, 0), Len(s)))

\* The local store only grows at its end, one entry per submission, the new
\* entry named after its position; so the i-th entry is local-i.
LocalStoreAppendOnly ==
    /\ \A s \in Submissions :
          (~supabase /\ cpc[s] = "idle" /\ cpc'[s] # "idle") =>
              /\ Len(LOCAL_STORE') = Len(LOCAL_STORE) + 1
              /\ LOCAL_STORE'[Len(LOCAL_STORE')].id = LocalId(Len(LOCAL_STORE) + 1)
              /\ LOCAL_STORE'[Len(LOCAL_STORE')].name = s
    /\ SubSeq(LOCAL_STORE', 1, Len(LOCAL_STORE)) = LOCAL_STORE
    /\ Len(LOCAL_STORE') <= Len(LOCAL_STORE) + 1
    /\ \A i \in DOMAIN LOCAL_STORE' : LOCAL_STORE'[i].id = LocalId(i)
    /\ \A i \in DOMAIN LOCAL_STORE', j \in DOMAIN LOCAL_STORE' :
          LOCAL_STORE'[i].id = LOCAL_STORE'[j].id => i = j

\* C28: with no datastore, every submission appends one entry local-(k+1) to
\* a store of size k, the store never shrinks or reorders, the i-th entry is
\* local-i and all ids differ, and GET /contacts answers the first limit
\* entries with count the size of the whole store.
C28_LocalStoreAndListing ==
    [][/\ LocalStoreAppendOnly
       /\ \A limit \in ListLimits, status \in StatusFilters :
             (~supabase /\ list_contacts(limit, status, "data")) =>
                 /\ listed'.contacts = FirstEntries(LOCAL_STORE, limit)
                 /\ listed'.count = Len(LOCAL_STORE)]_vars

----------------------------------------------------------------------------
(* Properties of POST /mcp/runtime/ingest, checked under SpecIngest *)

\* s is the beginning of t.
IsPrefix(s, t) == Len(s) <= Len(t) /\ SubSeq(t, 1, Len(s)) = s
\* The rows t has after those of s.
Added(s, t) == SubSeq(t, Len(s) + 1, Len(t))
\* The ids of the execution records stored for report r.
ExecutionsOf(r) ==
    {runtime_executions[i].id :
        i \in {j \in DOMAIN runtime_executions : runtime_executions[j].scout_id = r}}
\* The child rows stored under execution id, table by table.
RowsUnder(tbl, id) == LET Mine(row) == row.execution_id = id IN SelectSeq(tbl, Mine)
\* A step in which an insert after the execution insert fails for report r.
LaterInsertFails(r) ==
    \/ InsertLinkValidations(r, "raise")
    \/ InsertUrlDeltas(r, "raise")
    \/ InsertSemanticDeltas(r, "raise")
    \/ InsertAlerts(r, "raise")

\* C26: no step removes or changes a stored row; the child rows a report
\* inserts come after its execution record and carry the id of that record;
\* and when one of its later inserts fails the report is answered with an
\* error while its execution record and every row stored so far stay.
C26_ExecutionFirstNoRollback ==
    [][/\ IsPrefix(runtime_executions, runtime_executions')
       /\ IsPrefix(runtime_link_validations, runtime_link_validations')
       /\ IsPrefix(runtime_url_deltas, runtime_url_deltas')
       /\ IsPrefix(runtime_semantic_deltas, runtime_semantic_deltas')
       /\ IsPrefix(runtime_alerts, runtime_alerts')
       /\ \A r \in Reports :
             ingest'[r] # ingest[r] =>
                 LET added == Added(runtime_link_validations, runtime_link_validations')
                                \o Added(runtime_url_deltas, runtime_url_deltas')
                                \o Added(runtime_semantic_deltas, runtime_semantic_deltas')
                                \o Added(runtime_alerts, runtime_alerts')
                 IN  /\ Cardinality(ExecutionsOf(r)') <= 1
                     /\ added # <<>> =>
                           /\ ExecutionsOf(r) # {}
                           /\ \A i \in DOMAIN added : added[i].execution_id \in ExecutionsOf(r)
                     /\ LaterInsertFails(r) =>
                           /\ ingest_resp'[r].status \in {400, 500}
                           /\ ingest'[r].pc = "done"
                           /\ ExecutionsOf(r)' # {}
                           /\ UNCHANGED <<runtime_executions, runtime_link_validations,
                                          runtime_url_deltas, runtime_semantic_deltas,
                                          runtime_alerts>>]_vars
\* C26 witness: a report was answered 500 when its semantic insert failed,
\* with its execution record, its link rows and its url rows stored and no
\* semantic row, after another report had been stored whole under its own id.
C26_Witness ==
    \E r \in Reports, q \in Reports :
        /\ ingest_resp[q].status = 200 /\ ExecutionsOf(q) = {1}
        /\ RowsUnder(runtime_link_validations, 1) # <<>>
        /\ ingest[r].handler = "ingest_scout_data" /\ ingest_resp[r].status = 500
        /\ ExecutionsOf(r) = {2}
        /\ RowsUnder(runtime_link_validations, 2) # <<>>
        /\ RowsUnder(runtime_url_deltas, 2) # <<>>
        /\ ingest[r].payload.semantic_changes # <<>>
        /\ RowsUnder(runtime_semantic_deltas, 2) = <<>>

\* The alerts a report calls for in ingest_scout_data: one for failed links,
\* one for critical changes.
LinkFailureDue(p) == \E i \in DOMAIN p.links : p.links[i].status_code >= 400
SemanticCriticalDue(p) ==
    \E i \in DOMAIN p.semantic_changes : p.semantic_changes[i] = "critical"
AlertsDue(p) ==
    (IF LinkFailureDue(p) THEN 1 ELSE 0) + (IF SemanticCriticalDue(p) THEN 1 ELSE 0)
AlertTypesDue(p) ==
    (IF LinkFailureDue(p) THEN <<"link_failure">> ELSE <<>>)
        \o (IF SemanticCriticalDue(p) THEN <<"semantic_critical">> ELSE <<>>)
AlertTypes(rows) == [i \in 1..Len(rows) |-> rows[i].type]

\* C27: in ingest_scout_data a report reaches the insert into runtime_alerts
\* only when a link has a status of 400 or more or a change is critical; the
\* alerts stored for it are none or exactly the link-failure alert and the
\* semantic-critical alert its payload calls for; and a report answered ok
\* has them stored and reports their number, 0, 1 or 2, as alerts_created.
C27_ScoutAlerts ==
    \A r \in Reports :
        ingest[r].handler = "ingest_scout_data" =>
            LET p == ingest[r].payload
                stored == RowsUnder(runtime_alerts, ingest[r].execution_id)
            IN  /\ ingest[r].pc = "alerts" => AlertsDue(p) > 0
                /\ ingest[r].execution_id # 0 =>
                       AlertTypes(stored) \in {<<>>, AlertTypesDue(p)}
                /\ ingest_resp[r].status = 200 =>
                       /\ AlertTypes(stored) = AlertTypesDue(p)
                       /\ ingest_resp[r].alerts_created = AlertsDue(p)
                       /\ ingest_resp[r].alerts_created \in {0, 1, 2}
\* C27 witness: one report with a link at 400 and critical changes was
\* answered with two alerts, another with links at 200 and 399 and a relevant
\* change with none, and the alerts table holds the two.
C27_Witness ==
    \E r \in Reports, q \in Reports :
        /\ ingest[r].handler = "ingest_scout_data" /\ ingest_resp[r].status = 200
        /\ ingest[r].payload = Report(<<Link(400, TRUE)>>, <<>>, <<>>, <<"critical", "critical">>)
        /\ ingest_resp[r].alerts_created = 2
        /\ ingest[q].handler = "ingest_scout_data" /\ ingest_resp[q].status = 200
        /\ ingest[q].payload.links = <<Link(200, FALSE), Link(399, FALSE)>>
        /\ ingest_resp[q].alerts_created = 0
        /\ Len(runtime_alerts) = 2

====
